---- MODULE Spec2Model ----
(***************************************************************************)
(* Abdullah Housing API (src/main.py): registration and login over the     *)
(* "user" collection, create/list of the "project" and "plot" collections, *)
(* and the static informational endpoints.                                 *)
(*                                                                         *)
(* The document store is three insertion-ordered collections.  The store   *)
(* handle `db` is taken to be connected, so the `if db else None` guards   *)
(* of register_user and login_user always take the lookup branch.          *)
(* get_documents returns records in insertion order, and the limit query   *)
(* parameters are drawn from the non-negative integers.  Request bodies    *)
(* carry the fields that decide the handlers' branches; the other fields   *)
(* (plot_no, size, sector, description, cover_image) are held fixed.       *)
(***************************************************************************)
EXTENDS Integers, Sequences, FiniteSets, TLC

VARIABLES
    users,      \* the "user" collection, in insertion order
    projects,   \* the "project" collection, in insertion order
    plots,      \* the "plot" collection, in insertion order
    nextOid,    \* the store's next fresh identifier
    inflight,   \* register requests between their lookup and their insert
    req,        \* the request answered last
    resp,       \* the response sent last
    issued,     \* history: what each successful register returned, with its password
    created,    \* history: what each successful create returned, with the fields sent
    overlapped  \* history: some register request ran while another was in flight

vars == <<users, projects, plots, nextOid, inflight, req, resp, issued, created, overlapped>>

store == <<users, projects, plots, nextOid>>

----------------------------------------------------------------------------
(* Bounds of the model *)

\* documents the requests of a run may insert
MaxDocs == 2
\* register requests that may be in flight at once
MaxInflight == 2
\* project records the collection may hold before the run starts
MaxPre == 20

(* Program constants *)

DefaultProjectLimit == 20
DefaultPlotLimit == 50

----------------------------------------------------------------------------
(* Values *)

\* Python's None and a present Optional value
None == <<>>
Some(v) == <<v>>

Min(a, b) == IF a <= b THEN a ELSE b
Take(s, n) == SubSeq(s, 1, Min(n, Len(s)))
Range(s) == {s[i] : i \in 1..Len(s)}

\* hashlib.sha256(text).hexdigest(): a one-way digest, distinct texts giving
\* distinct digests
sha256_hash(text) == "sha256:" \o text

\* the store's native identifier, and Python's str() of it
ObjectId(n) == "ObjectId('" \o ToString(n) \o "')"
str(oid) == CHOOSE s \in {ToString(n) : n \in 0..nextOid} : "ObjectId('" \o s \o "')" = oid

----------------------------------------------------------------------------
(* Request inputs *)

Names == {"Ann", "Bob"}
Emails == {"a@x.io", "b@x.io"}
Passwords == {"pw1", "pw2"}

RegisterRequest == [name : Names, email : Emails, password : Passwords]
LoginRequest == [email : Emails, password : Passwords]

Titles == {"Sector A", "Sector B"}
FillerTitle == "Sector 0"
ProjectBodies == [title : Titles, status : {None, Some("ongoing"), Some("archived")}]
PlotBodies == [price : {None, Some(-5), Some(0)},
               status : {None, Some("sold"), Some("reserved")}]

Limits == {None, Some(0), Some(1)}
StatusQueries == {None, Some(""), Some("sold"), Some("available")}

ProjectStatuses == {"upcoming", "ongoing", "completed"}
PlotStatuses == {"available", "booked", "sold"}

----------------------------------------------------------------------------
(* Boundary models (pydantic) *)

ProjectIn(body) ==
    [title |-> body.title,
     description |-> None,
     status |-> IF body.status = None THEN "upcoming" ELSE body.status[1],
     cover_image |-> None]

\* the price field declared without its ge=0 constraint
PlotIn_valid_unconstrained(body) == TRUE

PlotIn_valid(body) == body.price = None \/ body.price[1] >= 0

PlotIn(body) ==
    [plot_no |-> "P-1",
     size |-> "5 Marla",
     sector |-> None,
     price |-> body.price,
     status |-> IF body.status = None THEN "available" ELSE body.status[1]]

ValidationError == [status |-> 422, detail |-> "validation error"]

----------------------------------------------------------------------------
(* Document store adapter *)

\* create_document: the collection with the new record appended under a
\* fresh identifier
create_document(coll, fields) == Append(coll, [_id |-> ObjectId(nextOid)] @@ fields)

\* the identifier create_document returns, as a string
create_document_id == str(ObjectId(nextOid))

Matches(d, filt) == \A kv \in filt : d[kv[1]] = kv[2]

\* get_documents: up to `limit` records matching the equality filter
get_documents(coll, filt, limit) ==
    Take(SelectSeq(coll, LAMBDA d : Matches(d, filt)), limit)

\* the lookup made on the name field instead of the email field
find_one_by_name(coll, email) ==
    LET hits == {i \in 1..Len(coll) : coll[i].name = email}
    IN  IF hits = {} THEN None
        ELSE Some(coll[CHOOSE i \in hits : \A j \in hits : i <= j])

\* db["user"].find_one({"email": email}): the first record with that email
find_one(coll, email) ==
    LET hits == {i \in 1..Len(coll) : coll[i].email = email}
    IN  IF hits = {} THEN None
        ELSE Some(coll[CHOOSE i \in hits : \A j \in hits : i <= j])

----------------------------------------------------------------------------
(* Auth routes *)

DuplicateEmail == [status |-> 400, detail |-> "Email already registered"]
InvalidCredentials == [status |-> 401, detail |-> "Invalid credentials"]

AuthResponse(message, token, user) ==
    [status |-> 200, message |-> message, token |-> token, user |-> user]

user_doc(payload) ==
    [name |-> payload.name,
     email |-> payload.email,
     password_hash |-> sha256_hash(payload.password),
     is_active |-> TRUE]

register_token(payload, user_id) == sha256_hash(payload.email \o "|" \o user_id)

\* lines 92-101: insert the user and answer with the token
register_insert(payload) ==
    LET user_id == create_document_id
        token == register_token(payload, user_id)
        user_public == [_id |-> user_id, name |-> payload.name, email |-> payload.email]
    IN  /\ users' = create_document(users, user_doc(payload))
        /\ nextOid' = nextOid + 1
        /\ resp' = AuthResponse("Registered successfully", token, user_public)
        /\ issued' = issued \cup {[email |-> payload.email, password |-> payload.password,
                                   _id |-> user_id, token |-> token]}

\* the handler without its lookup of the email
register_user_unchecked(payload) ==
    /\ req' = [op |-> "register", payload |-> payload]
    /\ register_insert(payload)
    /\ UNCHANGED <<projects, plots, inflight, created, overlapped>>

\* the whole handler, run without interruption
register_user(payload) ==
    /\ req' = [op |-> "register", payload |-> payload]
    /\ IF find_one(users, payload.email) # None
         THEN /\ resp' = DuplicateEmail
              /\ UNCHANGED <<users, nextOid, issued>>
         ELSE register_insert(payload)
    /\ UNCHANGED <<projects, plots, inflight, created, overlapped>>

\* the token digest taken over id + "|" + email
login_token_swapped(payload, user) == sha256_hash(str(user._id) \o "|" \o payload.email)

login_token(payload, user) == sha256_hash(payload.email \o "|" \o str(user._id))

\* the login that answers 404 when no record has the email
login_response_telling(payload) ==
    LET found == find_one(users, payload.email)
    IN  IF found = None THEN [status |-> 404, detail |-> "User not found"]
        ELSE LET user == found[1]
             IN  IF user.password_hash # sha256_hash(payload.password)
                   THEN InvalidCredentials
                   ELSE AuthResponse("Login successful", login_token(payload, user),
                                     [_id |-> str(user._id), name |-> user.name,
                                      email |-> user.email])

login_response(payload) ==
    LET found == find_one(users, payload.email)
    IN  IF found = None THEN InvalidCredentials
        ELSE LET user == found[1]
             IN  IF user.password_hash # sha256_hash(payload.password)
                   THEN InvalidCredentials
                   ELSE AuthResponse("Login successful", login_token(payload, user),
                                     [_id |-> str(user._id), name |-> user.name,
                                      email |-> user.email])

login_user(payload) ==
    /\ req' = [op |-> "login", payload |-> payload]
    /\ resp' = login_response(payload)
    /\ UNCHANGED <<store, inflight, issued, created, overlapped>>

----------------------------------------------------------------------------
(* Content routes *)

\* the record passed through with the store's native _id
norm_raw(d) == d

\* norm: the record with its _id rendered as a string
norm(d) == [d EXCEPT !._id = str(d._id)]

NormAll(docs) == [i \in 1..Len(docs) |-> norm(docs[i])]

list_projects_result(limit) ==
    NormAll(get_documents(projects, {},
                          IF limit = None THEN DefaultProjectLimit ELSE limit[1]))

list_projects(limit) ==
    /\ req' = [op |-> "list_projects", limit |-> limit]
    /\ resp' = [status |-> 200, body |-> list_projects_result(limit)]
    /\ UNCHANGED <<store, inflight, issued, created, overlapped>>

\* the create that overwrites the stored project of the same title
create_project_upsert(body) ==
    LET same == {i \in 1..Len(projects) : projects[i].title = body.title}
        doc == [_id |-> ObjectId(nextOid)] @@ ProjectIn(body)
    IN  /\ req' = [op |-> "create_project", body |-> body]
        /\ projects' = IF same = {} THEN Append(projects, doc)
                        ELSE [i \in 1..Len(projects) |->
                                 IF i \in same THEN doc ELSE projects[i]]
        /\ nextOid' = nextOid + 1
        /\ resp' = [status |-> 200,
                    body |-> [_id |-> create_document_id, message |-> "Project created"]]
        /\ created' = Append(created, [collection |-> "project", _id |-> create_document_id,
                                       fields |-> ProjectIn(body)])
        /\ UNCHANGED <<users, plots, inflight, issued, overlapped>>

create_project(body) ==
    /\ req' = [op |-> "create_project", body |-> body]
    /\ projects' = create_document(projects, ProjectIn(body))
    /\ nextOid' = nextOid + 1
    /\ resp' = [status |-> 200,
                body |-> [_id |-> create_document_id, message |-> "Project created"]]
    /\ created' = Append(created, [collection |-> "project", _id |-> create_document_id,
                                   fields |-> ProjectIn(body)])
    /\ UNCHANGED <<users, plots, inflight, issued, overlapped>>

\* `if status`: None and the empty string are both falsy
Truthy(status) == status # None /\ status[1] # ""

\* the status query parameter never applied
plots_filter_dropped(status) == {}

plots_filter(status) == IF Truthy(status) THEN {<<"status", status[1]>>} ELSE {}

list_plots_result(limit, status) ==
    NormAll(get_documents(plots, plots_filter(status),
                          IF limit = None THEN DefaultPlotLimit ELSE limit[1]))

list_plots(limit, status) ==
    /\ req' = [op |-> "list_plots", limit |-> limit, status |-> status]
    /\ resp' = [status |-> 200, body |-> list_plots_result(limit, status)]
    /\ UNCHANGED <<store, inflight, issued, created, overlapped>>

create_plot(body) ==
    /\ req' = [op |-> "create_plot", body |-> body]
    /\ IF ~PlotIn_valid(body)
         THEN /\ resp' = ValidationError
              /\ UNCHANGED <<plots, nextOid, created>>
         ELSE /\ plots' = create_document(plots, PlotIn(body))
              /\ nextOid' = nextOid + 1
              /\ resp' = [status |-> 200,
                          body |-> [_id |-> create_document_id, message |-> "Plot created"]]
              /\ created' = Append(created, [collection |-> "plot", _id |-> create_document_id,
                                             fields |-> PlotIn(body)])
    /\ UNCHANGED <<users, projects, inflight, issued, overlapped>>

\* the static endpoints: /, /api/noc, /api/map
read_root ==
    /\ req' = [op |-> "root"]
    /\ resp' = [status |-> 200, body |-> "Abdullah Housing Backend Running"]
    /\ UNCHANGED <<store, inflight, issued, created, overlapped>>

get_noc_info ==
    /\ req' = [op |-> "noc"]
    /\ resp' = [status |-> 200, body |-> "NOC & Licenses"]
    /\ UNCHANGED <<store, inflight, issued, created, overlapped>>

get_map_info ==
    /\ req' = [op |-> "map"]
    /\ resp' = [status |-> 200, body |-> "Abdullah Housing Master Plan"]
    /\ UNCHANGED <<store, inflight, issued, created, overlapped>>

----------------------------------------------------------------------------
(* The sequential system: each request finishes before the next starts *)

NoRequest == [op |-> "none"]
Idle == [pc |-> "idle"]

Init ==
    /\ users = <<>>
    /\ projects = <<>>
    /\ plots = <<>>
    /\ nextOid = 1
    /\ inflight = [s \in 1..MaxInflight |-> Idle]
    /\ req = NoRequest
    /\ resp = NoRequest
    /\ issued = {}
    /\ created = <<>>
    /\ overlapped = FALSE

\* the documents the run has inserted: all but the projects held beforehand
Inserted ==
    Len(users) + Len(plots) + Len(SelectSeq(projects, LAMBDA d : d.title # FillerTitle))

Full == Inserted >= MaxDocs

Next ==
    \/ \E p \in RegisterRequest :
          (Full => find_one(users, p.email) # None) /\ register_user(p)
    \/ \E p \in LoginRequest : login_user(p)
    \/ \E l \in Limits : list_projects(l)
    \/ \E b \in ProjectBodies : ~Full /\ create_project(b)
    \/ \E l \in Limits, s \in StatusQueries : list_plots(l, s)
    \/ \E b \in PlotBodies : (Full => ~PlotIn_valid(b)) /\ create_plot(b)
    \/ read_root
    \/ get_noc_info
    \/ get_map_info

Spec == Init /\ [][Next]_vars

----------------------------------------------------------------------------
(* The concurrent system: register requests interleave between the email   *)
(* lookup (line 89) and the insert (line 98)                               *)

Busy == {s \in 1..MaxInflight : inflight[s].pc # "idle"}

\* lines 88-91: look the email up; answer 400 when a record has it
register_lookup(s, payload) ==
    /\ inflight[s].pc = "idle"
    /\ IF find_one(users, payload.email) # None
         THEN /\ req' = [op |-> "register", payload |-> payload]
              /\ resp' = DuplicateEmail
              /\ UNCHANGED inflight
         ELSE /\ inflight' = [inflight EXCEPT ![s] = [pc |-> "insert", payload |-> payload]]
              /\ UNCHANGED <<req, resp>>
    /\ overlapped' = (overlapped \/ Busy \ {s} # {})
    /\ UNCHANGED <<store, issued, created>>

\* lines 92-101: insert and answer, with the lookup's result now possibly stale
register_complete(s) ==
    /\ inflight[s].pc = "insert"
    /\ req' = [op |-> "register", payload |-> inflight[s].payload]
    /\ register_insert(inflight[s].payload)
    /\ inflight' = [inflight EXCEPT ![s] = Idle]
    /\ UNCHANGED <<projects, plots, created, overlapped>>

NextConc ==
    \/ \E s \in 1..MaxInflight, p \in RegisterRequest :
          /\ Inserted + Cardinality(Busy) >= MaxDocs => find_one(users, p.email) # None
          /\ register_lookup(s, p)
    \/ \E s \in 1..MaxInflight : register_complete(s)
    \/ \E p \in LoginRequest : login_user(p)

SpecConc == Init /\ [][NextConc]_vars

----------------------------------------------------------------------------
(* The project routes over a collection that already holds records *)

Filler == ProjectIn([title |-> FillerTitle, status |-> None])

InitProjects ==
    /\ \E n \in 0..MaxPre :
          /\ projects = [i \in 1..n |-> [_id |-> ObjectId(i)] @@ Filler]
          /\ created = [i \in 1..n |-> [collection |-> "project", _id |-> ToString(i),
                                          fields |-> Filler]]
          /\ nextOid = n + 1
    /\ users = <<>>
    /\ plots = <<>>
    /\ inflight = [s \in 1..MaxInflight |-> Idle]
    /\ req = NoRequest
    /\ resp = NoRequest
    /\ issued = {}
    /\ overlapped = FALSE

NextProjects ==
    \/ \E l \in Limits : list_projects(l)
    \/ \E b \in ProjectBodies : ~Full /\ create_project(b)

SpecProjects == InitProjects /\ [][NextProjects]_vars

----------------------------------------------------------------------------
(* Properties *)

EmailsUnique == \A i, j \in 1..Len(users) : users[i].email = users[j].email => i = j

\* C1: in a sequential run, a register request for an email that an earlier
\* register request succeeded with is answered 400 "Email already registered",
\* whatever its name and password, and leaves the user collection as it was.
C1_DuplicateEmailRejected ==
    [][(/\ req'.op = "register"
        /\ \E r \in issued : r.email = req'.payload.email)
         => (resp' = DuplicateEmail /\ users' = users /\ nextOid' = nextOid)]_vars

\* C1 witness: a register request was refused for an email registered earlier
\* under another name and another password.
C1_Witness ==
    /\ req.op = "register"
    /\ resp = DuplicateEmail
    /\ \E i \in 1..Len(users) :
          /\ users[i].email = req.payload.email
          /\ users[i].name # req.payload.name
          /\ users[i].password_hash # sha256_hash(req.payload.password)

NoSuchUser(payload) == \A i \in 1..Len(users) : users[i].email # payload.email

WrongPassword(payload) ==
    \E i \in 1..Len(users) :
        /\ users[i].email = payload.email
        /\ users[i].password_hash # sha256_hash(payload.password)

\* C2: a login for an email no record has, and a login for a recorded email
\* with a password whose hash differs from the stored one, get the same
\* answer: 401 "Invalid credentials", with no token and no user data.
C2_LoginFailuresIndistinguishable ==
    /\ \A p \in LoginRequest :
          (NoSuchUser(p) \/ WrongPassword(p)) => login_response(p) = InvalidCredentials
    /\ (req.op = "login" /\ (NoSuchUser(req.payload) \/ WrongPassword(req.payload)))
          => resp = InvalidCredentials

\* C2 witness: a login with a wrong password was just refused, while another
\* email has no record, so both failures are possible in this state.
C2_Witness ==
    /\ req.op = "login"
    /\ WrongPassword(req.payload)
    /\ resp = InvalidCredentials
    /\ \E p \in LoginRequest : NoSuchUser(p)

\* C3: a successful login with the email and password of a user whose
\* register request returned id i and token t returns the same i and t, and
\* t = hash(email + "|" + i), after any sequence of requests.
C3_LoginRepeatsRegisterToken ==
    (req.op = "login" /\ resp.status = 200) =>
        \A r \in issued :
            (r.email = req.payload.email /\ r.password = req.payload.password) =>
                /\ resp.user._id = r._id
                /\ resp.token = r.token
                /\ r.token = sha256_hash(r.email \o "|" \o r._id)

\* C3 witness: a user registered after a content record was created has
\* logged in successfully.
C3_Witness ==
    /\ req.op = "login"
    /\ resp.status = 200
    /\ Len(projects) + Len(plots) > 0
    /\ \E r \in issued :
          /\ r.email = req.payload.email
          /\ r.password = req.payload.password
          /\ r._id = "2"

EffectivePlotLimit == IF req.limit = None THEN DefaultPlotLimit ELSE req.limit[1]

\* C4 as stated: for every status value passed, the empty string included,
\* the list holds only plots with that status, and no more than limit of them.
C4_Original ==
    (req.op = "list_plots" /\ req.status # None) =>
        /\ \A d \in Range(resp.body) : d.status = req.status[1]
        /\ Len(resp.body) <= EffectivePlotLimit

\* C4: for every non-empty status value passed, the list holds only plots
\* with that status; for every status, the list holds no more than limit
\* records (0 included); with the empty string or no status the list is the
\* first limit records of the collection, whatever their status.
C4_ListPlotsFilter ==
    req.op = "list_plots" =>
        /\ Truthy(req.status) => \A d \in Range(resp.body) : d.status = req.status[1]
        /\ Len(resp.body) <= EffectivePlotLimit
        /\ ~Truthy(req.status) =>
              /\ Len(resp.body) = Min(EffectivePlotLimit, Len(plots))
              /\ \A k \in 1..Len(resp.body) : resp.body[k].status = plots[k].status

\* C4 witness: with an unsold plot stored before a sold one, listing the sold
\* plots with limit 1 returned the sold one.
C4_Witness ==
    /\ req.op = "list_plots"
    /\ req.status = Some("sold")
    /\ req.limit = Some(1)
    /\ Len(plots) = 2
    /\ plots[1].status # "sold"
    /\ plots[2].status = "sold"
    /\ Len(resp.body) = 1
    /\ resp.body[1].status = "sold"

CreatedProjects == SelectSeq(created, LAMBDA c : c.collection = "project")

Rendered(c) == [_id |-> c._id] @@ c.fields

\* C5 as stated: a list-projects request with the default limit returns a
\* record with the title of every project created before, whatever number of
\* projects the collection holds, each _id being the string returned at creation.
C5_Original ==
    (req.op = "list_projects" /\ req.limit = None) =>
        /\ \A c \in Range(CreatedProjects) :
              \E d \in Range(resp.body) : d.title = c.fields.title
        /\ \A d \in Range(resp.body) :
              \E c \in Range(CreatedProjects) : d = Rendered(c)

\* C5: a list-projects request with the default limit returns, in order, the
\* first 20 projects, each with the fields it was created with and with _id
\* the string returned at its creation; while the collection holds at most 20
\* projects, that list has a record for every project created before.
C5_ListProjectsAfterCreate ==
    (req.op = "list_projects" /\ req.limit = None) =>
        /\ Len(resp.body) = Min(DefaultProjectLimit, Len(CreatedProjects))
        /\ \A k \in 1..Len(resp.body) : resp.body[k] = Rendered(CreatedProjects[k])
        /\ Len(projects) <= DefaultProjectLimit =>
              \A c \in Range(CreatedProjects) :
                  \E d \in Range(resp.body) : d.title = c.fields.title /\ d._id = c._id

\* C5 witness: the twentieth project, titled "Sector A", is in the list
\* returned with the default limit.
C5_Witness ==
    /\ req.op = "list_projects"
    /\ req.limit = None
    /\ Len(projects) = DefaultProjectLimit
    /\ projects[DefaultProjectLimit].title = "Sector A"
    /\ resp.body[DefaultProjectLimit].title = "Sector A"
    /\ resp.body[DefaultProjectLimit]._id = ToString(DefaultProjectLimit)

NegativePrice(body) == body.price # None /\ body.price[1] < 0

\* C6: a create-plot request with a negative price is answered with a
\* validation error and writes nothing, so every stored plot has price absent
\* or price >= 0.
C6_NegativePriceRejected ==
    /\ [](\A i \in 1..Len(plots) : plots[i].price = None \/ plots[i].price[1] >= 0)
    /\ [][(req'.op = "create_plot" /\ NegativePrice(req'.body))
            => (resp' = ValidationError /\ store' = store)]_vars

\* C6 witness: a create-plot request with price -5 was refused while the
\* collection held a plot.
C6_Witness ==
    /\ req.op = "create_plot"
    /\ req.body.price = Some(-5)
    /\ resp = ValidationError
    /\ Len(plots) > 0

\* C7: every stored project has status upcoming, ongoing or completed, and
\* every stored plot has status available, booked or sold.
C7_StatusWithinEnumeration ==
    /\ \A i \in 1..Len(projects) : projects[i].status \in ProjectStatuses
    /\ \A i \in 1..Len(plots) : plots[i].status \in PlotStatuses

\* C8: while no register request has run with another in flight, no two user
\* records share an email; the witness is the interleaving that breaks it.
C8_SequentialRunsKeepEmailsUnique == ~overlapped => EmailsUnique

\* C8 witness: two register requests for one email both succeeded, and the
\* user collection holds two records with that email.
C8_Witness ==
    /\ overlapped
    /\ \E r1, r2 \in issued : r1.email = r2.email /\ r1._id # r2._id
    /\ \E i, j \in 1..Len(users) : i # j /\ users[i].email = users[j].email

IsPrefix(old, new) == Len(old) <= Len(new) /\ SubSeq(new, 1, Len(old)) = old

Grown(old, new) == Len(new) = Len(old) + 1 /\ IsPrefix(old, new)

\* C9: every step keeps every stored record, with its id and its fields; a
\* step changes a collection only by appending one record to one collection,
\* and only when a register, create-project or create-plot request succeeds.
C9_StoreAppendOnly ==
    [][\/ /\ users' = users
          /\ projects' = projects
          /\ plots' = plots
          /\ (req'.op \in {"register", "create_project", "create_plot"}
                => resp'.status # 200)
       \/ /\ req'.op = "register"
          /\ resp'.status = 200
          /\ Grown(users, users')
          /\ projects' = projects
          /\ plots' = plots
       \/ /\ req'.op = "create_project"
          /\ resp'.status = 200
          /\ Grown(projects, projects')
          /\ users' = users
          /\ plots' = plots
       \/ /\ req'.op = "create_plot"
          /\ resp'.status = 200
          /\ Grown(plots, plots')
          /\ users' = users
          /\ projects' = projects]_vars

\* C9 witness: after a register and a create-plot succeeded, a list request
\* was answered with both records still stored.
C9_Witness ==
    /\ req.op = "list_plots"
    /\ Len(users) = 1
    /\ Len(plots) = 1
    /\ Len(resp.body) = 1

\* C10: whoever registered with email e and password p can log in with
\* (e, p), and is refused with any other password, also when registrations
\* ran concurrently.
C10_RegisteredUserCanLogIn ==
    \A r \in issued :
        /\ login_response([email |-> r.email, password |-> r.password]).status = 200
        /\ \A q \in Passwords \ {r.password} :
              login_response([email |-> r.email, password |-> q]) = InvalidCredentials

====
